---- MODULE Spec2Model ----
(***************************************************************************)
(* Model of alpha/template/composite/composite.go: the composite template  *)
(* Render orchestrator, its two document parsers and the assembly of the   *)
(* catalog -> schema -> builder matrix.                                    *)
(*                                                                         *)
(* Builders (Build/Validate), the image registry and the YAML/JSON decoder *)
(* are external: a builder call returns nil or an error chosen by the      *)
(* environment, and a document is given by what its decoding produces.     *)
(***************************************************************************)
EXTENDS Integers, Sequences, FiniteSets, TLC

\* ---------------------------------------------------------------- bounds
MaxCatalogs == 2
MaxBuilders == 2
MaxComponents == 2
MaxRenders == 2

\* ------------------------------------------------------------- constants
\* Schema identifiers referenced by composite.go (declared in the package).
BasicBuilderSchema == "olm.builder.basic"
SemverBuilderSchema == "olm.builder.semver"
RawBuilderSchema == "olm.builder.raw"
CustomBuilderSchema == "olm.builder.custom"
CatalogSchema == "olm.composite.catalogs"
CompositeSchema == "olm.composite"

\* A schema identifier no factory is registered for, and a document schema
\* that is neither CatalogSchema nor CompositeSchema.
UnregisteredSchema == "olm.builder.unregistered"
OtherDocSchema == "olm.other"

\* ------------------------------------------------------------ input sets
CatalogNames == {"a", "b"}
ComponentNames == {"a", "z"}
WorkingDirs == {"", "/wd"}
DeclaredSchemas == {BasicBuilderSchema, SemverBuilderSchema, UnregisteredSchema}
AssemblySchemas == {BasicBuilderSchema, UnregisteredSchema}
ComponentSchemas == {BasicBuilderSchema, SemverBuilderSchema}
Paths == {"/out/1", "/out/2"}
OutputTypes == {"json"}
ImageRegistries == {"reg"}

\* All sequences over S of length at most n.
SeqsUpTo(S, n) == UNION {[1..k -> S] : k \in 0..n}

\* All orders in which a Go `range` may visit the keys K of a map.
RangeOrders(K) ==
    {o \in [1..Cardinality(K) -> K] : \A x \in K : \E j \in DOMAIN o : o[j] = x}

\* Catalog: name, destination.workingDir, builders.
Catalogs(schemas, maxBuilders) ==
    [name : CatalogNames, workingDir : WorkingDirs,
     builders : SeqsUpTo(schemas, maxBuilders)]

\* Component: name, destination.path, strategy.template (its schema).
Components ==
    [name : ComponentNames, path : Paths, template : [schema : ComponentSchemas]]

\* What a reader holds, by the outcome of decoding it:
\*   "garbage"  neither YAML nor JSON (Decode fails)
\*   "shape"    YAML/JSON that does not unmarshal into the target type
\*   "doc"      a document with a schema field and its items
Garbage == [syntax |-> "garbage"]
WrongShape == [syntax |-> "shape"]
Doc(schema, items) == [syntax |-> "doc", schema |-> schema, items |-> items]

\* What a decoder finds on a reader an earlier decoder has read: the documents
\* above fit the decoder's 4096-byte buffer, which the first Decode fills from
\* the reader, so that nothing is left and Decode returns io.EOF.
EndOfStream == [syntax |-> "eof"]
Held(file, isDrained) == IF isDrained THEN EndOfStream ELSE file

CatalogFiles(schemas, maxCatalogs, maxBuilders) ==
    {Garbage, WrongShape}
    \cup {Doc(CatalogSchema, cs) :
              cs \in SeqsUpTo(Catalogs(schemas, maxBuilders), maxCatalogs)}
    \cup {Doc(OtherDocSchema, cs) : cs \in SeqsUpTo(Catalogs(schemas, maxBuilders), 1)}

ContributionFiles(maxComponents) ==
    {Garbage, WrongShape}
    \cup {Doc(CompositeSchema, cs) : cs \in SeqsUpTo(Components, maxComponents)}
    \cup {Doc(OtherDocSchema, cs) : cs \in SeqsUpTo(Components, 1)}

\* ---------------------------------------------------------------- errors
Nil == [kind |-> "nil"]

\* Errors a builder's Build and Validate may return (external, opaque).
BuildFailure == [kind |-> "build failure"]
ValidateFailure == [kind |-> "validate failure"]

ErrDecodeCatalog == [kind |-> "decoding catalog config"]
ErrUnmarshalCatalog == [kind |-> "unmarshalling catalog config"]
ErrCatalogSchema ==
    [kind |-> "catalog configuration file has unknown schema", should |-> CatalogSchema]
ErrDecodeComposite == [kind |-> "decoding composite config"]
ErrUnmarshalComposite == [kind |-> "unmarshalling composite config"]
ErrCompositeSchema ==
    [kind |-> "composite configuration file has unknown schema", should |-> CompositeSchema]
ErrUnknownSchema(schema) == [kind |-> "unknown schema", schema |-> schema]
ErrGettingBuilder(schema, name, cause) ==
    [kind |-> "getting builder", schema |-> schema, catalog |-> name, cause |-> cause]
\* msg: one <<catalog, errs>> block per key of setupErrors, in range order.
ErrFieldValidation(msg) ==
    [kind |-> "catalog configuration file field validation failed", msg |-> msg]
ErrBuilding(name, cause) ==
    [kind |-> "building component", component |-> name, cause |-> cause]
ErrValidating(name, cause) ==
    [kind |-> "validating component", component |-> name, cause |-> cause]
\* Mutant: the arguments of the message are swapped.
ErrNoBuilderSwapped(name, schema) ==
    [kind |-> "no builder found for template schema", component |-> schema, schema |-> name]
ErrNoBuilder(name, schema) ==
    [kind |-> "no builder found for template schema", component |-> name, schema |-> schema]
ErrNoCatalog(name, allowedComponents) ==
    [kind |-> "component does not exist in the catalog configuration",
     component |-> name, allowedComponents |-> allowedComponents]

WorkingDirEmpty == "destination.workingDir must not be an empty string"

\* ------------------------------------------------------- builder registry
\* NewTemplate: the default registered builders, schema -> factory.
DefaultRegisteredBuilders ==
    (BasicBuilderSchema :> "NewBasicBuilder")
    @@ (SemverBuilderSchema :> "NewSemverBuilder")
    @@ (RawBuilderSchema :> "NewRawBuilder")
    @@ (CustomBuilderSchema :> "NewCustomBuilder")

BuilderConfig(outputType) == [OutputType |-> outputType]

\* The Builder value a factory returns. id is the allocation: the n-th factory
\* invocation of an assembly yields a value distinct from all earlier ones.
NewBuilder(factory, builderCfg, id) ==
    [variant |-> factory, config |-> builderCfg, id |-> id]

NoBuilder == [variant |-> "nil"]

\* Mutant: a schema with no registered factory gets the basic builder.
builderForSchemaFallback(registered, schema, builderCfg, id) ==
    IF schema \in DOMAIN registered
    THEN [builder |-> NewBuilder(registered[schema], builderCfg, id), err |-> Nil]
    ELSE [builder |-> NewBuilder(registered[BasicBuilderSchema], builderCfg, id),
          err |-> Nil]

\* Mutant: the instance made for a schema is cached and returned again.
builderForSchemaShared(registered, schema, builderCfg, id) ==
    IF schema \in DOMAIN registered
    THEN [builder |-> NewBuilder(registered[schema], builderCfg, 0), err |-> Nil]
    ELSE [builder |-> NoBuilder, err |-> ErrUnknownSchema(schema)]

\* Template.builderForSchema: (Builder, error).
builderForSchema(registered, schema, builderCfg, id) ==
    IF schema \in DOMAIN registered
    THEN [builder |-> NewBuilder(registered[schema], builderCfg, id), err |-> Nil]
    ELSE [builder |-> NoBuilder, err |-> ErrUnknownSchema(schema)]

\* ------------------------------------------------------- matrix assembly
\* Mutant: the map is replaced by one holding the new key alone.
MapPutAlone(m, k, v) == [x \in {k} |-> v]

\* m with key k set to v (Go: m[k] = v).
MapPut(m, k, v) == [x \in DOMAIN m \cup {k} |-> IF x = k THEN v ELSE m[x]]

EmptyMap == <<>>

\* Mutant: no field of a catalog is validated.
NoFieldErrors(catalog) == <<>>

\* The field errors of one catalog (errs, lines 224-231).
FieldErrors(catalog) ==
    IF catalog.workingDir = "" THEN <<WorkingDirEmpty>> ELSE <<>>

\* Mutant: the existence check is dropped, a later occurrence overwrites.
HasCatalogNever(catalogBuilderMap, name) == FALSE

\* `_, ok := catalogBuilderMap[catalog.Name]` (line 240).
HasCatalog(catalogBuilderMap, name) == name \in DOMAIN catalogBuilderMap

\* The inner loop over catalog.Builders (lines 242-250), from position k.
\* lookups logs every builderForSchema call, in call order.
RECURSIVE BuildersLoop(_, _, _, _, _, _)
BuildersLoop(registered, catalog, outputType, k, builderMap, lookups) ==
    IF k > Len(catalog.builders)
    THEN [builderMap |-> builderMap, lookups |-> lookups, err |-> Nil]
    ELSE LET schema == catalog.builders[k]
             r == builderForSchema(registered, schema, BuilderConfig(outputType),
                                   Len(lookups) + 1)
             logged == Append(lookups, [schema |-> schema, catalog |-> catalog.name,
                                        builder |-> r.builder])
         IN IF r.err # Nil
            THEN [builderMap |-> builderMap, lookups |-> logged,
                  err |-> ErrGettingBuilder(schema, catalog.name, r.err)]
            ELSE BuildersLoop(registered, catalog, outputType, k + 1,
                              MapPut(builderMap, schema, r.builder), logged)

\* The loop over catalogs (lines 223-253), from position k, on the function's
\* locals st = [catalogBuilderMap, setupFailed, setupErrors, lookups, err].
RECURSIVE CatalogsLoop(_, _, _, _, _)
CatalogsLoop(registered, catalogs, outputType, k, st) ==
    IF k > Len(catalogs)
    THEN st
    ELSE LET catalog == catalogs[k]
             errs == FieldErrors(catalog)
         IN IF Len(errs) > 0
            THEN CatalogsLoop(registered, catalogs, outputType, k + 1,
                     [st EXCEPT !.setupFailed = TRUE,
                                !.setupErrors = MapPut(@, catalog.name, errs)])
            ELSE IF ~HasCatalog(st.catalogBuilderMap, catalog.name)
            THEN LET r == BuildersLoop(registered, catalog, outputType, 1,
                                       EmptyMap, st.lookups)
                 IN IF r.err # Nil
                    THEN [st EXCEPT !.lookups = r.lookups, !.err = r.err]
                    ELSE CatalogsLoop(registered, catalogs, outputType, k + 1,
                             [st EXCEPT !.lookups = r.lookups,
                                        !.catalogBuilderMap =
                                            MapPut(@, catalog.name, r.builderMap)])
            ELSE CatalogsLoop(registered, catalogs, outputType, k + 1, st)

\* The error message built from setupErrors, visited in range order `order`
\* (lines 258-264): per catalog, its name and its field errors.
SetupErrMsg(setupErrors, order) ==
    [j \in DOMAIN order |-> [catalog |-> order[j], errs |-> setupErrors[order[j]]]]

\* Template.newCatalogBuilderMap: the set of its possible returns
\* [catalogBuilderMap, err, lookups]; they differ only in the order in which
\* the range over setupErrors visits the failed catalogs.
newCatalogBuilderMap(registered, catalogs, outputType) ==
    LET st == CatalogsLoop(registered, catalogs, outputType, 1,
                  [catalogBuilderMap |-> EmptyMap, setupFailed |-> FALSE,
                   setupErrors |-> EmptyMap, lookups |-> <<>>, err |-> Nil])
    IN IF st.err # Nil
       THEN {[catalogBuilderMap |-> EmptyMap, err |-> st.err, lookups |-> st.lookups]}
       ELSE IF st.setupFailed
       THEN {[catalogBuilderMap |-> EmptyMap,
              err |-> ErrFieldValidation(SetupErrMsg(st.setupErrors, order)),
              lookups |-> st.lookups] : order \in RangeOrders(DOMAIN st.setupErrors)}
       ELSE {[catalogBuilderMap |-> st.catalogBuilderMap, err |-> Nil,
              lookups |-> st.lookups]}

\* -------------------------------------------------------------- parsing
\* Mutant: the schema field of the catalog document is not compared.
parseCatalogsSpecAnySchema(file) ==
    IF file.syntax \in {"garbage", "eof"}
    THEN [config |-> Nil, err |-> ErrDecodeCatalog]
    ELSE IF file.syntax = "shape"
    THEN [config |-> Nil, err |-> ErrUnmarshalCatalog]
    ELSE [config |-> [Schema |-> file.schema, Catalogs |-> file.items], err |-> Nil]

\* Template.parseCatalogsSpec on what the catalog reader holds:
\* [config, err]; config is [Schema, Catalogs].
parseCatalogsSpec(file) ==
    IF file.syntax \in {"garbage", "eof"}
    THEN [config |-> Nil, err |-> ErrDecodeCatalog]
    ELSE IF file.syntax = "shape"
    THEN [config |-> Nil, err |-> ErrUnmarshalCatalog]
    ELSE IF file.schema # CatalogSchema
    THEN [config |-> Nil, err |-> ErrCatalogSchema]
    ELSE [config |-> [Schema |-> file.schema, Catalogs |-> file.items], err |-> Nil]

\* Template.parseContributionSpec: [config, err]; config is [Schema, Components].
parseContributionSpec(file) ==
    IF file.syntax \in {"garbage", "eof"}
    THEN [config |-> Nil, err |-> ErrDecodeComposite]
    ELSE IF file.syntax = "shape"
    THEN [config |-> Nil, err |-> ErrUnmarshalComposite]
    ELSE IF file.schema # CompositeSchema
    THEN [config |-> Nil, err |-> ErrCompositeSchema]
    ELSE [config |-> [Schema |-> file.schema, Components |-> file.items], err |-> Nil]

\* ---------------------------------------------------------------- state
VARIABLES
    catalogFile,        \* Template.catalogFile: what the reader holds
    contributionFile,   \* Template.contributionFile: what the reader holds
    outputType,         \* Template.outputType
    registry,           \* Template.registry
    registeredBuilders, \* Template.registeredBuilders
    tValidate,          \* Template.validate, set by WithValidate
    drained,            \* the readers of the Template a decoder has read
    run,                \* how many times Render has been called
    alone,              \* what the first Render did, once it is called again
    pc,                 \* where Render is
    validate,           \* Render's validate argument
    catalogConfig,      \* Render's parsed catalog document
    compositeConfig,    \* Render's parsed composite document
    catalogBuilderMap,  \* Render's matrix
    i,                  \* index of the component the loop is at
    err,                \* Render's return value
    calls,              \* Build and Validate calls made on builders, in order
    lookups             \* builderForSchema calls made by the assembly, in order

template == <<catalogFile, contributionFile, outputType, registry, registeredBuilders,
              tValidate>>
history == <<run, alone>>
vars == <<catalogFile, contributionFile, outputType, registry, registeredBuilders,
          tValidate, drained, run, alone,
          pc, validate, catalogConfig, compositeConfig, catalogBuilderMap, i, err,
          calls, lookups>>

\* The locals of a Render that has just been called.
RenderCalled ==
    /\ pc = "Start"
    /\ validate = FALSE
    /\ catalogConfig = Nil
    /\ compositeConfig = Nil
    /\ catalogBuilderMap = EmptyMap
    /\ i = 1
    /\ err = Nil
    /\ calls = <<>>
    /\ lookups = <<>>

\* NewTemplate with WithCatalogFile, WithContributionFile, WithOutputType,
\* WithRegistry and WithValidate applied; Render not yet called.
InitWith(catalogFiles, contributionFiles, validates) ==
    /\ catalogFile \in catalogFiles
    /\ contributionFile \in contributionFiles
    /\ outputType \in OutputTypes
    /\ registry \in ImageRegistries
    /\ registeredBuilders = DefaultRegisteredBuilders
    /\ tValidate \in validates
    /\ drained = {}
    /\ run = 1
    /\ alone = Nil
    /\ RenderCalled

\* Composite documents of up to MaxComponents components, against catalog
\* documents of up to two catalogs that declare at most one builder each.
RenderCatalogFiles == CatalogFiles(DeclaredSchemas, 2, 1)

Init == InitWith(RenderCatalogFiles, ContributionFiles(MaxComponents), {FALSE})

\* Catalog documents of up to MaxCatalogs catalogs with up to MaxBuilders
\* builders each, against composite documents of one component.
AssemblyContributionFiles ==
    {Doc(CompositeSchema, <<c>>) :
        c \in {x \in Components : x.path = "/out/1"
                                  /\ x.template.schema = BasicBuilderSchema}}

InitAssembly ==
    InitWith(CatalogFiles(AssemblySchemas, MaxCatalogs, MaxBuilders),
             AssemblyContributionFiles, {FALSE})

\* Templates with either value of WithValidate, rendered up to MaxRenders
\* times: composite documents of up to MaxComponents components, against
\* catalog documents of one catalog declaring at most one builder.
InitRenders ==
    InitWith(CatalogFiles(DeclaredSchemas, 1, 1), ContributionFiles(MaxComponents),
             BOOLEAN)

\* --------------------------------------------------------------- Render
Fail(e) == pc' = "Failed" /\ err' = e

\* Render is called with `validate`; lines 117-120.
RenderParseCatalogs ==
    /\ pc = "Start"
    /\ \E v \in BOOLEAN : validate' = v
    /\ LET r == parseCatalogsSpec(Held(catalogFile, "catalogFile" \in drained))
       IN IF r.err # Nil
          THEN Fail(r.err) /\ UNCHANGED catalogConfig
          ELSE pc' = "CatalogParsed" /\ catalogConfig' = r.config /\ UNCHANGED err
    /\ drained' = drained \cup {"catalogFile"}
    /\ UNCHANGED <<template, history, compositeConfig, catalogBuilderMap, i, calls,
                   lookups>>

\* Lines 122-125.
RenderParseContribution ==
    /\ pc = "CatalogParsed"
    /\ LET r == parseContributionSpec(
                    Held(contributionFile, "contributionFile" \in drained))
       IN IF r.err # Nil
          THEN Fail(r.err) /\ UNCHANGED compositeConfig
          ELSE pc' = "DocumentsParsed" /\ compositeConfig' = r.config /\ UNCHANGED err
    /\ drained' = drained \cup {"contributionFile"}
    /\ UNCHANGED <<template, history, validate, catalogConfig, catalogBuilderMap, i,
                   calls, lookups>>

\* Lines 127-130.
RenderAssemble ==
    /\ pc = "DocumentsParsed"
    /\ \E r \in newCatalogBuilderMap(registeredBuilders, catalogConfig.Catalogs, outputType) :
          /\ lookups' = r.lookups
          /\ IF r.err # Nil
             THEN Fail(r.err) /\ UNCHANGED catalogBuilderMap
             ELSE pc' = "Components" /\ catalogBuilderMap' = r.catalogBuilderMap
                  /\ UNCHANGED err
    /\ UNCHANGED <<template, history, drained, validate, catalogConfig,
                   compositeConfig, i, calls>>

\* The component the loop is at.
component == compositeConfig.Components[i]

\* `builderMap, ok := (*catalogBuilderMap)[component.Name]` (line 134).
HasBuilderMap(cbm, c) == c.name \in DOMAIN cbm

\* `builder, ok := builderMap[component.Strategy.Template.Schema]` (line 135).
HasComponentBuilder(cbm, c) == c.template.schema \in DOMAIN cbm[c.name]

\* Mutant: the builder is looked up by schema alone, in any catalog having it.
ComponentBuilderAnyCatalog(cbm, c) ==
    LET others == {n \in DOMAIN cbm : n # c.name /\ c.template.schema \in DOMAIN cbm[n]}
    IN IF others = {}
       THEN cbm[c.name][c.template.schema]
       ELSE cbm[CHOOSE n \in others : TRUE][c.template.schema]

\* The builder the two lookups of lines 134-135 yield.
ComponentBuilder(cbm, c) == cbm[c.name][c.template.schema]

\* builder.Build(ctx, t.registry, component.Destination.Path, component.Strategy.Template)
\* as logged in calls: the receiver, the arguments, the index of the component
\* the loop is at, and what the call returned.
BuildCall(builder, reg, c, idx, ret) ==
    [op |-> "Build", builder |-> builder, registry |-> reg, path |-> c.path,
     template |-> c.template, component |-> idx, ret |-> ret]

\* Mutant: Validate is given the component's name for its path.
ValidateCallName(builder, c, idx, ret) ==
    [op |-> "Validate", builder |-> builder, path |-> c.name, component |-> idx,
     ret |-> ret]

\* builder.Validate(ctx, component.Destination.Path), as logged in calls.
ValidateCall(builder, c, idx, ret) ==
    [op |-> "Validate", builder |-> builder, path |-> c.path, component |-> idx,
     ret |-> ret]

\* Mutant: the error of Build is dropped and the loop goes on.
BuildErredNever(e) == FALSE

\* `if err != nil` after Build (line 138).
BuildErred(e) == e # Nil

\* Mutant: the error Validate returns is dropped.
ValidateErredNever(e) == FALSE

\* `if err != nil` after Validate (line 145).
ValidateErred(e) == e # Nil

\* Mutant: Validate is run whatever the argument says.
ShouldValidateAlways(v) == TRUE

\* Mutant: the loop tests the Template's field, not the argument.
ShouldValidateField(v) == tValidate

\* Whether the loop goes on to validate after a successful Build (line 142).
ShouldValidate(v) == v

\* Mutant: the list of allowed components stops after one key.
AllowedComponentsAtMostOne(cbm) == SeqsUpTo(DOMAIN cbm, 1)

\* allowedComponents: the keys of the matrix in range order (lines 153-156).
AllowedComponents(cbm) == RangeOrders(DOMAIN cbm)

\* Mutant: the loop does not move on to the next component.
NextIndexStuck(k) == k

\* The range loop moves on to the next component (line 133).
NextIndex(k) == k + 1

\* Mutant: looking a component up inserts an empty BuilderMap for its name.
AfterLookupInserted(cbm, c) ==
    IF c.name \in DOMAIN cbm THEN cbm ELSE MapPut(cbm, c.name, EmptyMap)

\* The matrix after the two comma-ok lookups of lines 134-135, which only read.
AfterLookup(cbm, c) == cbm

\* One turn of the loop up to the return of Build; lines 133-141, 149-158.
RenderComponent ==
    /\ pc = "Components"
    /\ i <= Len(compositeConfig.Components)
    /\ IF HasBuilderMap(catalogBuilderMap, component)
       THEN IF HasComponentBuilder(catalogBuilderMap, component)
            THEN \E e \in {Nil, BuildFailure} :
                    /\ calls' = Append(calls,
                           BuildCall(ComponentBuilder(catalogBuilderMap, component),
                                     registry, component, i, e))
                    /\ IF BuildErred(e)
                       THEN Fail(ErrBuilding(component.name, e)) /\ UNCHANGED i
                       ELSE IF ShouldValidate(validate)
                       THEN pc' = "Validate" /\ UNCHANGED <<i, err>>
                       ELSE i' = NextIndex(i) /\ UNCHANGED <<pc, err>>
            ELSE /\ Fail(ErrNoBuilder(component.name, component.template.schema))
                 /\ UNCHANGED <<i, calls>>
       ELSE /\ \E allowedComponents \in AllowedComponents(catalogBuilderMap) :
                  Fail(ErrNoCatalog(component.name, allowedComponents))
            /\ UNCHANGED <<i, calls>>
    /\ catalogBuilderMap' = AfterLookup(catalogBuilderMap, component)
    /\ UNCHANGED <<template, history, drained, validate, catalogConfig,
                   compositeConfig, lookups>>

\* The rest of the turn when validate is set; lines 142-148.
RenderValidate ==
    /\ pc = "Validate"
    /\ \E e \in {Nil, ValidateFailure} :
          /\ calls' = Append(calls,
                 ValidateCall(ComponentBuilder(catalogBuilderMap, component),
                              component, i, e))
          /\ IF ValidateErred(e)
             THEN Fail(ErrValidating(component.name, e)) /\ UNCHANGED i
             ELSE pc' = "Components" /\ i' = NextIndex(i) /\ UNCHANGED err
    /\ UNCHANGED <<template, history, drained, validate, catalogConfig,
                   compositeConfig, catalogBuilderMap, lookups>>

\* The loop is over; line 160.
RenderReturn ==
    /\ pc = "Components"
    /\ i > Len(compositeConfig.Components)
    /\ pc' = "Done"
    /\ err' = Nil
    /\ UNCHANGED <<template, history, drained, validate, catalogConfig,
                   compositeConfig, catalogBuilderMap, i, calls, lookups>>

\* Render has returned and is called again on the same Template (line 115):
\* its locals are new, the Template and its readers are as the last call left
\* them.
RenderAgain ==
    /\ pc \in {"Done", "Failed"}
    /\ run < MaxRenders
    /\ run' = run + 1
    /\ alone' = IF run = 1
                THEN [validate |-> validate, pc |-> pc, err |-> err, calls |-> calls]
                ELSE alone
    /\ pc' = "Start"
    /\ validate' = FALSE
    /\ catalogConfig' = Nil
    /\ compositeConfig' = Nil
    /\ catalogBuilderMap' = EmptyMap
    /\ i' = 1
    /\ err' = Nil
    /\ calls' = <<>>
    /\ lookups' = <<>>
    /\ UNCHANGED <<template, drained>>

Next ==
    \/ RenderParseCatalogs
    \/ RenderParseContribution
    \/ RenderAssemble
    \/ RenderComponent
    \/ RenderValidate
    \/ RenderReturn

Spec == Init /\ [][Next]_vars

SpecAssembly == InitAssembly /\ [][Next]_vars

\* Render called up to MaxRenders times, one call after the other.
NextRenders == Next \/ RenderAgain

SpecRenders == InitRenders /\ [][NextRenders]_vars

\* Render runs to its end: its steps are sequential code, and every Build and
\* Validate call returns. Composite documents of up to MaxComponents
\* components, against catalog documents of one catalog declaring at most one
\* builder.
InitLive ==
    InitWith(CatalogFiles(DeclaredSchemas, 1, 1), ContributionFiles(MaxComponents),
             {FALSE})

SpecLive == InitLive /\ [][Next]_vars /\ WF_vars(Next)

\* ======================================================================
\*                              Properties
\* ======================================================================
Range(seq) == {seq[k] : k \in DOMAIN seq}
UpTo(n) == [k \in 1..n |-> k]

Terminal == pc \in {"Done", "Failed"}

\* The documents held by the two readers, as written by their authors.
CatalogDocOK == catalogFile.syntax = "doc" /\ catalogFile.schema = CatalogSchema
CompositeDocOK == contributionFile.syntax = "doc" /\ contributionFile.schema = CompositeSchema
InCatalogs == catalogFile.items
InComponents == contributionFile.items

NamesOf(catalogs) == {catalogs[k].name : k \in DOMAIN catalogs}
IsFirstOccurrence(catalogs, k) == \A j \in 1..(k - 1) : catalogs[j].name # catalogs[k].name
FirstOccurrence(catalogs, name) ==
    catalogs[CHOOSE k \in DOMAIN catalogs :
                 catalogs[k].name = name /\ IsFirstOccurrence(catalogs, k)]
EmptyWorkingDirNames(catalogs) ==
    {catalogs[k].name : k \in {j \in DOMAIN catalogs : catalogs[j].workingDir = ""}}

\* The calls of one operation, and the component indexes of a list of calls.
CallsOf(op) == SelectSeq(calls, LAMBDA c : c.op = op)
ComponentsOf(cs) == [k \in DOMAIN cs |-> cs[k].component]
NoCallErred == \A k \in DOMAIN calls : calls[k].ret = Nil

\* Both documents are valid and every component resolves: every catalog has a
\* working directory and declares registered schemas only, and every component
\* names a catalog and a schema that catalog declares.
AllResolve ==
    /\ CatalogDocOK
    /\ CompositeDocOK
    /\ \A k \in DOMAIN InCatalogs :
          /\ InCatalogs[k].workingDir # ""
          /\ Range(InCatalogs[k].builders) \subseteq DOMAIN registeredBuilders
    /\ \A k \in DOMAIN InComponents :
          /\ InComponents[k].name \in NamesOf(InCatalogs)
          /\ InComponents[k].template.schema
                \in Range(FirstOccurrence(InCatalogs, InComponents[k].name).builders)

\* C1: when both documents are valid, every component resolves and no Build or
\* Validate returns an error, Render succeeds, having called Build exactly once
\* per component in document order and, with validate = TRUE, Validate exactly
\* once per component in document order; with validate = FALSE Validate is
\* never called.
C1_OneBuildPerComponentInOrder ==
    AllResolve =>
        /\ ~validate => CallsOf("Validate") = <<>>
        /\ (Terminal /\ NoCallErred) =>
              /\ pc = "Done"
              /\ err = Nil
              /\ ComponentsOf(CallsOf("Build")) = UpTo(Len(InComponents))
              /\ ComponentsOf(CallsOf("Validate")) =
                     IF validate THEN UpTo(Len(InComponents)) ELSE <<>>

C1_Witness ==
    /\ AllResolve
    /\ pc = "Done"
    /\ validate
    /\ Len(InComponents) >= 2
    /\ Len(calls) = 2 * Len(InComponents)

\* C2: a Build that returns an error is the last call Render makes: Render has
\* failed with that error wrapped with the component's name, and no Build or
\* Validate is logged for a later component, nor a Validate for this one.
C2_BuildErrorStopsRender ==
    \A k \in DOMAIN calls :
        (calls[k].op = "Build" /\ calls[k].ret # Nil) =>
            /\ pc = "Failed"
            /\ err = ErrBuilding(InComponents[calls[k].component].name, calls[k].ret)
            /\ k = Len(calls)
            /\ \A j \in DOMAIN calls :
                  /\ calls[j].component <= calls[k].component
                  /\ calls[j].op = "Validate" => calls[j].component < calls[k].component

C2_Witness ==
    /\ pc = "Failed"
    /\ err.kind = "building component"
    /\ validate
    /\ i < Len(InComponents)
    /\ calls # <<>>
    /\ calls[Len(calls)].op = "Build"
    /\ calls[Len(calls)].ret = BuildFailure

\* newCatalogBuilderMap has returned.
Assembled == compositeConfig # Nil /\ pc # "DocumentsParsed"

IsFieldValidation(e) == e.kind = "catalog configuration file field validation failed"
IsGettingBuilder(e) == e.kind = "getting builder"
IsNoCatalog(e) == e.kind = "component does not exist in the catalog configuration"
IsNoBuilder(e) == e.kind = "no builder found for template schema"
IsParseError(e) ==
    e \in {ErrDecodeCatalog, ErrUnmarshalCatalog, ErrCatalogSchema,
           ErrDecodeComposite, ErrUnmarshalComposite, ErrCompositeSchema}

\* The lookups that returned a builder: the factory invocations.
FactoryCalls == SelectSeq(lookups, LAMBDA l : l.builder # NoBuilder)

\* C3: whenever some catalog of the sequence has an empty workingDir, the
\* assembly fails with the aggregated field-validation error, which lists
\* every catalog with an empty workingDir, each with that field error.
C3_EveryEmptyWorkingDirListed ==
    (Assembled /\ EmptyWorkingDirNames(catalogConfig.Catalogs) # {}) =>
        /\ pc = "Failed"
        /\ IsFieldValidation(err)
        /\ {err.msg[k].catalog : k \in DOMAIN err.msg}
               = EmptyWorkingDirNames(catalogConfig.Catalogs)
        /\ \A k \in DOMAIN err.msg : err.msg[k].errs = <<WorkingDirEmpty>>

\* C4: when some catalog of the sequence has an empty workingDir, the assembly
\* looks up no builder at all, wherever that catalog sits in the sequence.
C4_NoLookupUnlessAllCatalogsValid ==
    (CatalogDocOK /\ EmptyWorkingDirNames(InCatalogs) # {}) => lookups = <<>>

\* The names of the components Build has been called for.
BuildNames ==
    {InComponents[calls[k].component].name :
        k \in {j \in DOMAIN calls : calls[j].op = "Build"}}

\* The catalogs a failed Render reports a mismatch for, by class of mismatch.
InvalidCatalogsReported ==
    IF IsFieldValidation(err) THEN {err.msg[k].catalog : k \in DOMAIN err.msg} ELSE {}
UnresolvedCatalogReported == IF IsGettingBuilder(err) THEN {err.catalog} ELSE {}
MissingCatalogReported == IF IsNoCatalog(err) THEN {err.component} ELSE {}
UnsupportedSchemaReported == IF IsNoBuilder(err) THEN {err.component} ELSE {}

\* C5, as claimed: a Render that fails with a mismatch for catalog c, of any
\* of the four classes, has called Build for no component named c.
C5_NoBuildForMismatchedCatalog ==
    pc = "Failed" =>
        BuildNames \cap (InvalidCatalogsReported \cup UnresolvedCatalogReported
                         \cup MissingCatalogReported \cup UnsupportedSchemaReported) = {}

\* C5, amended: a catalog with an empty workingDir, a catalog declaring an
\* unregistered schema and a component naming a missing catalog are detected
\* before any Build for a component named c (a catalog with an empty workingDir
\* or a missing catalog never gets a Build); a component requesting a schema
\* its catalog does not support is detected before any Build for that
\* component or a later one, earlier components of the same name having been
\* built already.
C5_MismatchDetectedBeforeItsBuild ==
    /\ CatalogDocOK =>
          /\ BuildNames \cap EmptyWorkingDirNames(InCatalogs) = {}
          /\ BuildNames \subseteq NamesOf(InCatalogs)
    /\ pc = "Failed" =>
          /\ BuildNames \cap (InvalidCatalogsReported \cup UnresolvedCatalogReported
                              \cup MissingCatalogReported) = {}
          /\ IsNoBuilder(err) =>
                /\ err.component = InComponents[i].name
                /\ \A k \in DOMAIN calls : calls[k].component < i

C5_Witness ==
    /\ pc = "Failed"
    /\ IsNoBuilder(err)
    /\ i = 2
    /\ InComponents[1].name = InComponents[2].name
    /\ BuildNames = {err.component}

\* C6: when a document does not parse (it does not decode, does not unmarshal,
\* or its schema field is not the expected constant) or the assembly fails,
\* Render fails and no Build or Validate is ever called.
C6_NoCallAfterParseOrAssemblyFailure ==
    /\ ~CatalogDocOK =>
          /\ calls = <<>>
          /\ pc # "Start" => (pc = "Failed" /\ IsParseError(err))
    /\ ~CompositeDocOK =>
          /\ calls = <<>>
          /\ pc \notin {"Start", "CatalogParsed"} => (pc = "Failed" /\ IsParseError(err))
    /\ (IsFieldValidation(err) \/ IsGettingBuilder(err)) =>
          (calls = <<>> /\ pc = "Failed")
    /\ (CatalogDocOK /\ EmptyWorkingDirNames(InCatalogs) # {}) =>
          /\ calls = <<>>
          /\ Assembled => (pc = "Failed" /\ err # Nil)

\* A catalog document that is valid but for its schema field, rejected while
\* the composite document has components to build.
C6_Witness ==
    /\ pc = "Failed"
    /\ err = ErrCatalogSchema
    /\ catalogFile.syntax = "doc"
    /\ Len(catalogFile.items) = 1
    /\ catalogFile.items[1].workingDir # ""
    /\ CompositeDocOK
    /\ Len(InComponents) >= 1
    /\ calls = <<>>

\* newCatalogBuilderMap has returned a matrix.
AssemblyOK == Assembled /\ ~IsFieldValidation(err) /\ ~IsGettingBuilder(err)

DocsOK == CatalogDocOK /\ CompositeDocOK

\* The components naming no catalog of the Catalog document, and those whose
\* schema the catalog they name (its first occurrence) does not declare.
MissingCatalogIdx ==
    {k \in DOMAIN InComponents : InComponents[k].name \notin NamesOf(InCatalogs)}
UnsupportedSchemaIdx ==
    {k \in DOMAIN InComponents :
        /\ InComponents[k].name \in NamesOf(InCatalogs)
        /\ InComponents[k].template.schema
              \notin Range(FirstOccurrence(InCatalogs, InComponents[k].name).builders)}

\* C7: with a component naming a catalog absent from the Catalog document,
\* Render fails; when Render fails at such a component, the error is the
\* unknown-component-catalog error for it, listing every catalog name of the
\* matrix (the names of the Catalog document) exactly once, and no Build was
\* called for that component or a later one.
C7_MissingCatalogListsAllNames ==
    (DocsOK /\ MissingCatalogIdx # {}) =>
        /\ Terminal => (pc = "Failed" /\ err # Nil)
        /\ IsNoCatalog(err) => (pc = "Failed" /\ i \in MissingCatalogIdx)
        /\ (pc = "Failed" /\ AssemblyOK /\ i \in MissingCatalogIdx) =>
              /\ IsNoCatalog(err)
              /\ err.component = InComponents[i].name
              /\ Range(err.allowedComponents) = DOMAIN catalogBuilderMap
              /\ Range(err.allowedComponents) = NamesOf(InCatalogs)
              /\ Len(err.allowedComponents) = Cardinality(NamesOf(InCatalogs))
              /\ \A k \in DOMAIN calls : calls[k].component < i

C7_Witness ==
    /\ pc = "Failed"
    /\ IsNoCatalog(err)
    /\ Len(err.allowedComponents) = 2
    /\ i = 2
    /\ calls # <<>>

\* C8: with a component whose schema is not declared by the catalog it names,
\* Render fails; when Render fails at such a component, the error is the
\* unknown-component-schema error for that component and schema, and no Build
\* was called for that component or a later one.
C8_UnsupportedSchemaFailsRender ==
    (DocsOK /\ UnsupportedSchemaIdx # {}) =>
        /\ Terminal => (pc = "Failed" /\ err # Nil)
        /\ IsNoBuilder(err) => (pc = "Failed" /\ i \in UnsupportedSchemaIdx)
        /\ (pc = "Failed" /\ AssemblyOK /\ i \in UnsupportedSchemaIdx) =>
              /\ IsNoBuilder(err)
              /\ err.component = InComponents[i].name
              /\ err.schema = InComponents[i].template.schema
              /\ \A k \in DOMAIN calls : calls[k].component < i

C8_Witness ==
    /\ pc = "Failed"
    /\ IsNoBuilder(err)
    /\ i = 1
    /\ Len(InComponents) = 2
    /\ 2 \notin UnsupportedSchemaIdx \cup MissingCatalogIdx
    /\ calls = <<>>

\* The builderForSchema calls the builders lists ask for, in sequence order and
\* declared order: of every catalog, or of first occurrences of a name only.
RECURSIVE DeclaredLookups(_, _, _)
DeclaredLookups(catalogs, k, firstOnly) ==
    IF k > Len(catalogs)
    THEN <<>>
    ELSE (IF firstOnly => IsFirstOccurrence(catalogs, k)
          THEN [j \in DOMAIN catalogs[k].builders |->
                   [schema |-> catalogs[k].builders[j], catalog |-> catalogs[k].name]]
          ELSE <<>>)
         \o DeclaredLookups(catalogs, k + 1, firstOnly)

\* What was looked up, without the builders returned.
LookedUp == [j \in DOMAIN lookups |-> [schema |-> lookups[j].schema,
                                       catalog |-> lookups[j].catalog]]

\* The builder returned by the last lookup of schema for catalog name.
LastBuilt(name, schema) ==
    LET js == {j \in DOMAIN lookups :
                  lookups[j].catalog = name /\ lookups[j].schema = schema}
    IN lookups[CHOOSE j \in js : \A j2 \in js : j2 <= j].builder

\* C9: after a successful assembly the matrix entry of every catalog name is
\* the BuilderMap of the first occurrence of that name: its keys are the
\* schemas of the first occurrence's builders list, its builders the ones
\* looked up for that list, and nothing was looked up for a later occurrence.
C9_FirstOccurrenceWins ==
    AssemblyOK =>
        /\ DOMAIN catalogBuilderMap = NamesOf(InCatalogs)
        /\ LookedUp = DeclaredLookups(InCatalogs, 1, TRUE)
        /\ \A name \in NamesOf(InCatalogs) :
              LET first == FirstOccurrence(InCatalogs, name)
              IN /\ DOMAIN catalogBuilderMap[name] = Range(first.builders)
                 /\ \A schema \in Range(first.builders) :
                       catalogBuilderMap[name][schema] = LastBuilt(name, schema)

C9_Witness ==
    /\ AssemblyOK
    /\ Len(InCatalogs) = 2
    /\ InCatalogs[1].name = InCatalogs[2].name
    /\ InCatalogs[1].builders # <<>>
    /\ Range(InCatalogs[1].builders) # Range(InCatalogs[2].builders)
    /\ DOMAIN catalogBuilderMap[InCatalogs[1].name] = Range(InCatalogs[1].builders)

AllWorkingDirsSet == \A k \in DOMAIN InCatalogs : InCatalogs[k].workingDir # ""
Unresolved(ls) == {j \in DOMAIN ls : ls[j].schema \notin DOMAIN registeredBuilders}

\* The assembly failed at the first unresolved entry of ls, having looked up
\* nothing after it and returned no matrix.
FailedFastAt(ls) ==
    LET f == CHOOSE j \in Unresolved(ls) : \A j2 \in Unresolved(ls) : j <= j2
    IN /\ pc = "Failed"
       /\ err = ErrGettingBuilder(ls[f].schema, ls[f].catalog,
                                  ErrUnknownSchema(ls[f].schema))
       /\ LookedUp = SubSeq(ls, 1, f)
       /\ catalogBuilderMap = EmptyMap

\* C10, as claimed: when every catalog passes field validation and some
\* catalog declares a schema with no registered factory, the assembly fails
\* fast at the first such schema, in sequence order and declared order.
C10_FailsFastOnAnyUnresolved ==
    (Assembled /\ AllWorkingDirsSet
     /\ Unresolved(DeclaredLookups(InCatalogs, 1, FALSE)) # {}) =>
        FailedFastAt(DeclaredLookups(InCatalogs, 1, FALSE))

\* C10, amended: the same for the catalogs that are the first occurrence of
\* their name; the builders list of a later occurrence is not resolved.
C10_FailsFastOnFirstUnresolved ==
    (Assembled /\ AllWorkingDirsSet
     /\ Unresolved(DeclaredLookups(InCatalogs, 1, TRUE)) # {}) =>
        FailedFastAt(DeclaredLookups(InCatalogs, 1, TRUE))

C10_Witness ==
    /\ pc = "Failed"
    /\ IsGettingBuilder(err)
    /\ AllWorkingDirsSet
    /\ Len(InCatalogs) = 2
    /\ InCatalogs[1].name # InCatalogs[2].name
    /\ err.catalog = InCatalogs[2].name
    /\ Len(InCatalogs[2].builders) = 2
    /\ Len(lookups) = 2

\* ---------------------------------------------------------------- C11
IsBuilding(e) == e.kind = "building component"
IsValidating(e) == e.kind = "validating component"
IsCatalogParseError(e) == e \in {ErrDecodeCatalog, ErrUnmarshalCatalog, ErrCatalogSchema}
IsCompositeParseError(e) ==
    e \in {ErrDecodeComposite, ErrUnmarshalComposite, ErrCompositeSchema}

\* The Catalog document makes assembly fail: a catalog has no working
\* directory, or a catalog that is the first of its name to have one declares
\* a schema with no registered factory.
AssemblyFatal ==
    \E k \in DOMAIN InCatalogs :
        \/ InCatalogs[k].workingDir = ""
        \/ /\ \A j \in 1..(k - 1) :
                 InCatalogs[j].name = InCatalogs[k].name => InCatalogs[j].workingDir = ""
           /\ ~(Range(InCatalogs[k].builders) \subseteq DOMAIN registeredBuilders)

\* Component k was built and, when validation was requested, validated.
Processed(k) ==
    /\ \E c \in DOMAIN calls :
          calls[c].op = "Build" /\ calls[c].component = k /\ calls[c].ret = Nil
    /\ validate =>
          \E c \in DOMAIN calls :
              calls[c].op = "Validate" /\ calls[c].component = k /\ calls[c].ret = Nil

\* No call but the last returned an error.
OnlyLastCallErred == \A c \in 1..(Len(calls) - 1) : calls[c].ret = Nil

\* C11: a Render that has returned is Done with a nil error or Failed with a
\* non-nil one; it is Done exactly when both documents parsed, the matrix was
\* assembled and every component was built and, with validate = TRUE,
\* validated. A Failed Render carries the first fatal error in the order
\* catalog parse, composite parse, assembly, components in document order with
\* Build before Validate: an invalid Catalog document gives a catalog parse
\* error; else an invalid Composite document a composite parse error; else a
\* Catalog document that cannot be assembled an assembly error; in these three
\* cases no call was made. Otherwise the error is about component i, every
\* component before i was processed without error and resolves, no call but
\* the last returned an error, and the error is the Build error of i, the
\* Validate error of i after its Build succeeded, or a resolution error of i
\* with no call made for i.
C11_OneOutcomeFirstFatalError ==
    Terminal =>
        /\ (pc = "Done") <=> (err = Nil)
        /\ (pc = "Done") <=>
              /\ DocsOK
              /\ ~AssemblyFatal
              /\ \A k \in DOMAIN InComponents : Processed(k)
        /\ (pc = "Failed" /\ ~CatalogDocOK) => IsCatalogParseError(err) /\ calls = <<>>
        /\ (pc = "Failed" /\ CatalogDocOK /\ ~CompositeDocOK) =>
              IsCompositeParseError(err) /\ calls = <<>>
        /\ (pc = "Failed" /\ DocsOK /\ AssemblyFatal) =>
              (IsFieldValidation(err) \/ IsGettingBuilder(err)) /\ calls = <<>>
        /\ (pc = "Failed" /\ DocsOK /\ ~AssemblyFatal) =>
              /\ i \in DOMAIN InComponents
              /\ err.component = InComponents[i].name
              /\ \A k \in 1..(i - 1) :
                    Processed(k) /\ k \notin MissingCatalogIdx \cup UnsupportedSchemaIdx
              /\ OnlyLastCallErred
              /\ \/ /\ IsBuilding(err)
                    /\ calls # <<>>
                    /\ calls[Len(calls)].op = "Build"
                    /\ calls[Len(calls)].component = i
                    /\ calls[Len(calls)].ret = err.cause
                    /\ err.cause # Nil
                 \/ /\ IsValidating(err)
                    /\ validate
                    /\ Len(calls) >= 2
                    /\ calls[Len(calls)].op = "Validate"
                    /\ calls[Len(calls)].component = i
                    /\ calls[Len(calls)].ret = err.cause
                    /\ err.cause # Nil
                    /\ calls[Len(calls) - 1].op = "Build"
                    /\ calls[Len(calls) - 1].component = i
                 \/ /\ IsNoCatalog(err) \/ IsNoBuilder(err)
                    /\ i \in MissingCatalogIdx \cup UnsupportedSchemaIdx
                    /\ NoCallErred
                    /\ \A c \in DOMAIN calls : calls[c].component < i

\* A Render that failed validating its second component, after two Builds
\* and the first Validate succeeded.
C11_Witness ==
    /\ pc = "Failed"
    /\ IsValidating(err)
    /\ i = 2
    /\ Len(calls) = 4
    /\ calls[3].ret = Nil

\* ---------------------------------------------------------------- C12
\* The entries of the matrix, as <<catalog name, schema>> pairs.
MatrixEntries ==
    UNION {{<<name, schema>> : schema \in DOMAIN catalogBuilderMap[name]} :
              name \in DOMAIN catalogBuilderMap}

\* C12: in an assembled matrix every (catalog name, schema) entry holds the
\* instance returned by a factory invocation made for that catalog and that
\* schema, configured with the Template's output type, and no two entries hold
\* the same instance: catalogs declaring the same schema do not share a
\* builder.
C12_BuildersNotSharedAcrossCatalogs ==
    AssemblyOK =>
        /\ \A e \in MatrixEntries :
              /\ catalogBuilderMap[e[1]][e[2]].config.OutputType = outputType
              /\ catalogBuilderMap[e[1]][e[2]].variant = registeredBuilders[e[2]]
              /\ \E j \in DOMAIN lookups :
                    /\ lookups[j].catalog = e[1]
                    /\ lookups[j].schema = e[2]
                    /\ lookups[j].builder = catalogBuilderMap[e[1]][e[2]]
        /\ \A e1, e2 \in MatrixEntries :
              e1 # e2 => catalogBuilderMap[e1[1]][e1[2]] # catalogBuilderMap[e2[1]][e2[2]]

\* A matrix of two catalogs that both declare the basic schema.
C12_Witness ==
    /\ AssemblyOK
    /\ Cardinality(DOMAIN catalogBuilderMap) = 2
    /\ \A name \in DOMAIN catalogBuilderMap :
          BasicBuilderSchema \in DOMAIN catalogBuilderMap[name]

\* ---------------------------------------------------------------- C13
\* C13: a Render called on a Template after an earlier Render of it has
\* returned gives what it gives when run alone: with the same validate
\* argument, and no Build or Validate call returning an error in either, its
\* result and its call trace equal those of the first Render of the Template.
C13_LaterRenderAsAlone ==
    (/\ run > 1
     /\ Terminal
     /\ validate = alone.validate
     /\ NoCallErred
     /\ \A c \in DOMAIN alone.calls : alone.calls[c].ret = Nil)
        => /\ err = alone.err
           /\ calls = alone.calls

\* ---------------------------------------------------------------- C14
\* C14: a Validate call is made only with validate = TRUE and directly after
\* the Build call of the same component returned nil, on the builder and with
\* the destination path of that Build; with validate = TRUE a Build of a later
\* component directly follows the Validate of the component before it. A
\* Validate call that returned an error is the last call of the trace, and
\* Render has failed with that error wrapped with the component's name.
C14_ValidateFollowsItsBuild ==
    \A c \in DOMAIN calls :
        /\ calls[c].op = "Validate" =>
              /\ validate
              /\ c > 1
              /\ calls[c - 1].op = "Build"
              /\ calls[c - 1].component = calls[c].component
              /\ calls[c - 1].ret = Nil
              /\ calls[c].builder = calls[c - 1].builder
              /\ calls[c].path = calls[c - 1].path
              /\ calls[c].path = InComponents[calls[c].component].path
              /\ calls[c].ret # Nil =>
                    /\ c = Len(calls)
                    /\ pc = "Failed"
                    /\ IsValidating(err)
                    /\ err.component = InComponents[calls[c].component].name
                    /\ err.cause = calls[c].ret
        /\ (calls[c].op = "Build" /\ validate /\ c > 1) =>
              /\ calls[c - 1].op = "Validate"
              /\ calls[c - 1].component < calls[c].component
              /\ calls[c - 1].ret = Nil

\* The Validate of the first of two components returned an error.
C14_Witness ==
    /\ pc = "Failed"
    /\ IsValidating(err)
    /\ Len(InComponents) = 2
    /\ Len(calls) = 2
    /\ calls[2].op = "Validate"
    /\ calls[2].ret = ValidateFailure

\* ---------------------------------------------------------------- C15
\* C15: every Build call is made on the builder the matrix holds for the name
\* and the template schema of the component the loop is at, a builder that was
\* looked up for that catalog and that schema, and is given that component's
\* destination path and template and the Template's registry.
C15_BuildOnMatrixBuilderWithComponentArgs ==
    \A c \in DOMAIN calls :
        calls[c].op = "Build" =>
            LET comp == InComponents[calls[c].component]
            IN /\ comp.name \in DOMAIN catalogBuilderMap
               /\ comp.template.schema \in DOMAIN catalogBuilderMap[comp.name]
               /\ calls[c].builder = catalogBuilderMap[comp.name][comp.template.schema]
               /\ \E j \in DOMAIN lookups :
                     /\ lookups[j].builder = calls[c].builder
                     /\ lookups[j].catalog = comp.name
                     /\ lookups[j].schema = comp.template.schema
               /\ calls[c].path = comp.path
               /\ calls[c].template = comp.template
               /\ calls[c].registry = registry

\* Two components with different paths were built with the builder of their
\* catalog, while another catalog of the matrix holds a builder for the same
\* schema.
C15_Witness ==
    /\ pc = "Done"
    /\ Len(InComponents) = 2
    /\ Len(calls) = 2
    /\ InComponents[1].path # InComponents[2].path
    /\ \E other \in DOMAIN catalogBuilderMap :
          /\ other # InComponents[1].name
          /\ InComponents[1].template.schema \in DOMAIN catalogBuilderMap[other]
          /\ calls[1].builder # catalogBuilderMap[other][InComponents[1].template.schema]

\* ---------------------------------------------------------------- C16
\* The states of Render in their order: Start, the Catalog document parsed,
\* both documents parsed, the matrix assembled and components being
\* processed, returned.
Stage(p) ==
    CASE p = "Start" -> 0
      [] p = "CatalogParsed" -> 1
      [] p = "DocumentsParsed" -> 2
      [] p \in {"Components", "Validate"} -> 3
      [] p \in {"Done", "Failed"} -> 4

\* How far component processing is: the Build of component k comes before its
\* Validate, which comes before the Build of component k + 1.
Progress(p, k) == 2 * k + (IF p = "Validate" THEN 1 ELSE 0)

\* A step of Render moves to a later state or, while processing components,
\* further in the components; the component index never decreases, and a
\* Build is called for a component after all components built so far.
Forward ==
    /\ Stage(pc') >= Stage(pc)
    /\ i' >= i
    /\ Stage(pc') = Stage(pc) =>
          /\ pc \in {"Components", "Validate"}
          /\ Progress(pc', i') > Progress(pc, i)
    /\ (Len(calls') > Len(calls) /\ calls'[Len(calls')].op = "Build") =>
          \A c \in DOMAIN calls : calls[c].component < calls'[Len(calls')].component

\* C16: every step of Render moves forward through Start, documents parsed,
\* matrix assembled, components processed, with the component index strictly
\* increasing from one processed component to the next, never back to an
\* earlier state or component; and, every Build and Validate call returning,
\* Render eventually reaches Done or Failed.
C16_LinearAndTerminates == [][Forward]_vars /\ <>Terminal

\* Render went through every state and returned after processing two
\* components with validation.
C16_Witness ==
    /\ pc = "Done"
    /\ i = 3
    /\ validate
    /\ Len(calls) = 4

\* ---------------------------------------------------------------- C17
\* C17: no step of Render changes the Template's builder registry, and from
\* the assembly of the matrix on, through component processing to the return
\* of Render, no step changes the matrix: no entry is added, removed or
\* replaced.
C17_RegistryAndMatrixUnchanged ==
    [][/\ registeredBuilders' = registeredBuilders
       /\ pc \in {"Components", "Validate"} =>
             /\ DOMAIN catalogBuilderMap' = DOMAIN catalogBuilderMap
             /\ \A name \in DOMAIN catalogBuilderMap :
                   catalogBuilderMap'[name] = catalogBuilderMap[name]]_vars

\* Render failed at a component that names no catalog of a non-empty matrix,
\* after a Build for an earlier component.
C17_Witness ==
    /\ pc = "Failed"
    /\ IsNoCatalog(err)
    /\ catalogBuilderMap # EmptyMap
    /\ \E name \in DOMAIN catalogBuilderMap : DOMAIN catalogBuilderMap[name] # {}
    /\ Len(calls) = 1

\* ---------------------------------------------------------------- C18
\* Every component a Composite document may hold for the lookup of lines
\* 134-135: a catalog name and a template schema.
LookupComponents ==
    {[name |-> name, template |-> [schema |-> schema]] :
        name \in CatalogNames \cup ComponentNames,
        schema \in DeclaredSchemas \cup ComponentSchemas}

\* The two lookups of Render find a builder for component c.
Resolves(c) ==
    /\ HasBuilderMap(catalogBuilderMap, c)
    /\ HasComponentBuilder(catalogBuilderMap, c)

\* C18: after a successful assembly the keys of the matrix are the catalog
\* names of the Catalog document, and the keys of each name's BuilderMap are
\* the schemas of the builders list of that name's first occurrence, all of
\* them registered; so the lookup for a component finds a builder exactly
\* when the component names a catalog of the document with a schema of that
\* list, and Render calls Build for its first component exactly in that case.
C18_MatrixKeysAreFirstOccurrenceSchemas ==
    AssemblyOK =>
        /\ DOMAIN catalogBuilderMap = NamesOf(InCatalogs)
        /\ \A name \in NamesOf(InCatalogs) :
              /\ DOMAIN catalogBuilderMap[name] =
                     Range(FirstOccurrence(InCatalogs, name).builders)
              /\ DOMAIN catalogBuilderMap[name] \subseteq DOMAIN registeredBuilders
        /\ \A c \in LookupComponents :
              Resolves(c) <=>
                  /\ c.name \in NamesOf(InCatalogs)
                  /\ c.template.schema
                        \in Range(FirstOccurrence(InCatalogs, c.name).builders)
        /\ (Terminal /\ InComponents # <<>>) =>
              (\E c \in DOMAIN calls : calls[c].component = 1)
                  <=> /\ InComponents[1].name \in NamesOf(InCatalogs)
                      /\ InComponents[1].template.schema \in
                            Range(FirstOccurrence(InCatalogs, InComponents[1].name).builders)

\* A matrix of two catalog names, one of them declared twice with different
\* builders lists, and a component that resolved.
C18_Witness ==
    /\ AssemblyOK
    /\ Len(InCatalogs) > Cardinality(NamesOf(InCatalogs))
    /\ \E j, k \in DOMAIN InCatalogs :
          /\ j < k
          /\ InCatalogs[j].name = InCatalogs[k].name
          /\ Range(InCatalogs[j].builders) # Range(InCatalogs[k].builders)
    /\ calls # <<>>

\* ---------------------------------------------------------------- C19
\* The positions of the Catalog document holding a name an earlier position
\* holds.
LaterOccurrences == {k \in DOMAIN InCatalogs : ~IsFirstOccurrence(InCatalogs, k)}

\* C19: once assembly has run, for every later occurrence of a catalog name:
\* if its workingDir is empty the assembly failed with the aggregated
\* field-validation error; and a schema of its builders list that the first
\* occurrence of the name does not declare was never looked up for that name,
\* is not the cause of a failed assembly and is no key of the name's
\* BuilderMap.
C19_LaterOccurrenceValidatedNotResolved ==
    (CatalogDocOK /\ Assembled) =>
        \A k \in LaterOccurrences :
            LET name == InCatalogs[k].name
                only == Range(InCatalogs[k].builders)
                            \ Range(FirstOccurrence(InCatalogs, name).builders)
            IN /\ InCatalogs[k].workingDir = "" => IsFieldValidation(err)
               /\ \A schema \in only :
                     /\ \A j \in DOMAIN lookups :
                           ~(lookups[j].catalog = name /\ lookups[j].schema = schema)
                     /\ ~(IsGettingBuilder(err) /\ err.catalog = name /\ err.schema = schema)
                     /\ name \in DOMAIN catalogBuilderMap =>
                           schema \notin DOMAIN catalogBuilderMap[name]

\* ---------------------------------------------------------------- C20
\* C20: whatever value WithValidate gave the Template, the first Render of
\* the Template calls Validate exactly as its validate argument says: never
\* with validate = FALSE, and with validate = TRUE after every Build that
\* returned nil; so Templates differing only in that value produce the same
\* call trace and the same result for the same argument and call returns.
C20_WithValidateHasNoEffect ==
    run = 1 =>
        /\ ~validate => CallsOf("Validate") = <<>>
        /\ validate =>
              \A c \in DOMAIN calls :
                  (calls[c].op = "Build" /\ calls[c].ret = Nil) =>
                      \/ /\ c = Len(calls)
                         /\ pc = "Validate"
                      \/ /\ c < Len(calls)
                         /\ calls[c + 1].op = "Validate"
                         /\ calls[c + 1].component = calls[c].component
        /\ (Terminal /\ NoCallErred /\ DocsOK /\ ~AssemblyFatal
              /\ MissingCatalogIdx \cup UnsupportedSchemaIdx = {}) =>
              /\ pc = "Done"
              /\ Len(calls) = (IF validate THEN 2 ELSE 1) * Len(InComponents)

\* A Template with WithValidate(true) rendered with validate = FALSE: a
\* component was built and not validated.
C20_Witness ==
    /\ run = 1
    /\ tValidate
    /\ ~validate
    /\ pc = "Done"
    /\ Len(calls) = 2
    /\ CallsOf("Validate") = <<>>

====
